---- MODULE Spec2Model ----
(***************************************************************************)
(* Model of the "Run Forecast" pipeline of chatgpt_app.py: four forecast   *)
(* adapters submitted to a thread pool, the collection loop that scores    *)
(* each future against the last 12 observations, the second computation of *)
(* the forecasts for the chart, the metrics table and the progress bar.    *)
(*                                                                         *)
(* The series is modelled by its length and by the positions (0-based)     *)
(* that each step reads; the fitted libraries are opaque, so a fit is      *)
(* modelled by whether it raises and by which observations it reads.       *)
(***************************************************************************)
EXTENDS Integers, Sequences, FiniteSets, TLC

\* forecast(steps=12), X[-12:], time_series[-12:]
Horizon == 12

\* bounds of the explored inputs
MinLen == 11
MaxLen == 16
MaxLags == 3

\* insertion order of the futures dict
Methods == <<"ETS", "ARIMA", "XGBoost", "LSTM">>

MethodSet == {Methods[j] : j \in 1..Len(Methods)}

LagMethods == {"XGBoost", "LSTM"}

VARIABLES
    series_len,      \* len(time_series)
    lags,            \* sidebar slider "Number of Lags"
    invalid_config,  \* methods whose model construction / fit raises for this input
    empty_fit_ok,    \* lag methods whose library accepts a fit on zero rows
    pc,              \* position of the script thread
    futures,         \* method -> future of the pool task
    completed,       \* methods in the order their tasks finished
    i,               \* loop counter of the collection loop
    results,         \* the results dict
    errors,          \* st.error messages shown so far
    progress_bar,    \* percentages shown by the progress bar, in order
    forecasts,       \* the forecasts dict built for the chart
    calls,           \* method -> number of adapter invocations in this run
    writes,          \* log of assignments into the results dict
    uncaught,        \* exception that escaped the script, if any
    metrics_df,      \* table handed to st.dataframe
    status_text      \* text of the status placeholder

vars == <<series_len, lags, invalid_config, empty_fit_ok, pc, futures, completed,
          i, results, errors, progress_bar, forecasts, calls, writes, uncaught,
          metrics_df, status_text>>

----------------------------------------------------------------------------
(* Python slicing, on lengths and on 0-based positions *)

\* len(x[-k:])
PyTailLen(len, k) == IF len < k THEN len ELSE k

\* len(x[:-k]) and len(x[k:])
PyDropLen(len, k) == IF len < k THEN 0 ELSE len - k

\* positions of time_series[-12:]
HoldoutTail(n) == (n - PyTailLen(n, Horizon))..(n - 1)

\* rows of X = np.array([shift(1..lags)]).T[lags:] ; row t is built from t-1..t-lags
LagRows(n, l) == l..(n - 1)

\* rows of X[:-12] / y[:-12]
TrainRows(n, l) == l..(l + PyDropLen(PyDropLen(n, l), Horizon) - 1)

\* rows of X[-12:]
PredictRows(n, l) == (n - PyTailLen(PyDropLen(n, l), Horizon))..(n - 1)

\* observations read to build the feature windows of a set of rows
LagWindow(rows, l) == UNION {(t - l)..(t - 1) : t \in rows}

----------------------------------------------------------------------------
(* Outcomes of the stochastic training of the recurrent network: two       *)
(* different finite weight draws and one diverged draw (NaN predictions).  *)
LSTMDraws == {[draw |-> 1, finite |-> TRUE],
              [draw |-> 2, finite |-> TRUE],
              [draw |-> 3, finite |-> FALSE]}

FixedDraw == [draw |-> 1, finite |-> TRUE]

Draws(m) == IF m = "LSTM" THEN LSTMDraws ELSE {FixedDraw}

Raised(m) == [ok |-> FALSE, method |-> m, error |-> "adapter"]

Returned(m, d, len, at, fit, inputs) ==
    [ok |-> TRUE, method |-> m, draw |-> d.draw, finite |-> d.finite,
     len |-> len, at |-> at, fit_reads |-> fit, predict_reads |-> inputs]

\* fit on the whole series, forecast(steps=12) continues after its end
run_ets_model(n, bad, d) ==
    IF "ETS" \in bad THEN Raised("ETS")
    ELSE Returned("ETS", d, Horizon, n..(n + Horizon - 1), 0..(n - 1), {})

run_arima_model(n, bad, d) ==
    IF "ARIMA" \in bad THEN Raised("ARIMA")
    ELSE Returned("ARIMA", d, Horizon, n..(n + Horizon - 1), 0..(n - 1), {})

\* shared shape of the two lag-window adapters
LagModel(m, n, l, bad, emptyOk, d) ==
    LET train == TrainRows(n, l)
        pred  == PredictRows(n, l)
    IN  IF m \in bad \/ (train = {} /\ m \notin emptyOk)
        THEN Raised(m)
        ELSE Returned(m, d, Cardinality(pred), pred,
                      train \cup LagWindow(train, l), LagWindow(pred, l))

run_xgboost_model(n, l, bad, emptyOk, d) == LagModel("XGBoost", n, l, bad, emptyOk, d)

run_lstm_model(n, l, bad, emptyOk, d) == LagModel("LSTM", n, l, bad, emptyOk, d)

\* the call made for method m by executor.submit and by the forecasts dict
Adapter(m, d) ==
    CASE m = "ETS"     -> run_ets_model(series_len, invalid_config, d)
      [] m = "ARIMA"   -> run_arima_model(series_len, invalid_config, d)
      [] m = "XGBoost" -> run_xgboost_model(series_len, lags, invalid_config, empty_fit_ok, d)
      [] m = "LSTM"    -> run_lstm_model(series_len, lags, invalid_config, empty_fit_ok, d)

\* sklearn's input validation: unequal lengths, no samples or NaN raise ValueError
calculate_metrics(true_len, pred) ==
    IF true_len # pred.len THEN [ok |-> FALSE, error |-> "inconsistent lengths"]
    ELSE IF pred.len = 0 THEN [ok |-> FALSE, error |-> "no samples"]
    ELSE IF ~pred.finite THEN [ok |-> FALSE, error |-> "NaN"]
    ELSE [ok |-> TRUE,
          metrics |-> [of |-> <<pred.method, pred.draw>>, samples |-> pred.len]]

\* st.progress: an int is a percentage 0..100, a float a fraction 0.0..1.0
IntValue(v) == [type |-> "int", num |-> v, den |-> 1]

FloatValue(num, den) == [type |-> "float", num |-> num, den |-> den]

\* variant: the fraction is cast to a whole number instead of being scaled
Percent_Truncating(v) == IF v.type = "int" THEN v.num ELSE v.num \div v.den

Percent(v) == IF v.type = "int" THEN v.num ELSE (v.num * 100) \div v.den

Pending == [state |-> "pending"]

NoFuture == [state |-> "none"]

Empty == [m \in {} |-> 0]

NoException == [from |-> "none", method |-> "none"]

----------------------------------------------------------------------------
Init ==
    /\ series_len \in MinLen..MaxLen
    /\ lags \in 1..MaxLags
    /\ invalid_config \in SUBSET MethodSet
    /\ empty_fit_ok \in SUBSET LagMethods
    /\ pc = "idle"
    /\ futures = [m \in MethodSet |-> NoFuture]
    /\ completed = <<>>
    /\ i = 1
    /\ results = Empty
    /\ errors = <<>>
    /\ progress_bar = <<>>
    /\ forecasts = Empty
    /\ calls = [m \in MethodSet |-> 0]
    /\ writes = <<>>
    /\ uncaught = NoException
    /\ metrics_df = [shown |-> FALSE, rows |-> Empty]
    /\ status_text = ""

\* button pressed: progress(0), results = {}, four tasks submitted
RunForecast ==
    /\ pc = "idle"
    /\ pc' = "collect"
    /\ progress_bar' = <<Percent(IntValue(0))>>
    /\ results' = Empty
    /\ futures' = [m \in MethodSet |-> Pending]
    /\ i' = 1
    /\ UNCHANGED <<series_len, lags, invalid_config, empty_fit_ok, completed, errors,
                   forecasts, calls, writes, uncaught, metrics_df, status_text>>

\* a pool thread runs the adapter of m and completes its future
AdapterTask(m) ==
    /\ futures[m].state = "pending"
    /\ \E d \in Draws(m) :
          futures' = [futures EXCEPT ![m] = [state |-> "finished", outcome |-> Adapter(m, d)]]
    /\ completed' = Append(completed, m)
    /\ calls' = [calls EXCEPT ![m] = @ + 1]
    /\ UNCHANGED <<series_len, lags, invalid_config, empty_fit_ok, pc, i, results, errors,
                   progress_bar, forecasts, writes, uncaught, metrics_df, status_text>>

\* the future waited for and the key written in iteration k of the collection loop
\* variant: futures are taken in completion order (as_completed) while the
\* keys are still taken in dict order
FutureAt_Completion(k) == IF k <= Len(completed) THEN completed[k] ELSE Methods[k]

FutureAt(k) == Methods[k]

\* variant: the key lags one behind the enumerate counter
ResultKey_OffByOne(k) == Methods[IF k > 1 THEN k - 1 ELSE k]

ResultKey(k) == Methods[k]

ProgressAfter(k, failed) == Percent(FloatValue(k, Len(Methods)))

\* one iteration of: for i, (model, future) in enumerate(futures.items(), 1)
Collect ==
    /\ pc = "collect"
    /\ futures[FutureAt(i)].state = "finished"
    /\ LET model == ResultKey(i)
           out   == futures[FutureAt(i)].outcome
           ev    == IF out.ok
                    THEN calculate_metrics(PyTailLen(series_len, Horizon), out)
                    ELSE [ok |-> FALSE, error |-> out.error]
       IN  /\ IF out.ok /\ ev.ok
              THEN /\ results' = [k \in DOMAIN results \cup {model} |->
                                     IF k = model THEN ev.metrics ELSE results[k]]
                   /\ writes' = Append(writes, [writer |-> "script", key |-> model])
                   /\ errors' = errors
              ELSE /\ errors' = Append(errors,
                                   [method |-> model, error |-> ev.error])
                   /\ UNCHANGED <<results, writes>>
           /\ progress_bar' = Append(progress_bar, ProgressAfter(i, ~(out.ok /\ ev.ok)))
    /\ i' = i + 1
    /\ pc' = IF i = Len(Methods) THEN "visualize" ELSE "collect"
    /\ UNCHANGED <<series_len, lags, invalid_config, empty_fit_ok, futures, completed,
                   forecasts, calls, uncaught, metrics_df, status_text>>

\* index of the first element of a sequence of booleans that is TRUE, or 0
FirstTrue(s) ==
    IF \E k \in 1..Len(s) : s[k]
    THEN CHOOSE k \in 1..Len(s) : s[k] /\ \A j \in 1..(k - 1) : ~s[j]
    ELSE 0

\* the forecasts dict (every adapter called again on the script thread, no
\* try/except) and the ax.plot of each forecast over range(n, n + 12)
Visualization ==
    /\ pc = "visualize"
    /\ \E d \in LSTMDraws :
          LET out     == [k \in 1..Len(Methods) |->
                            Adapter(Methods[k], IF Methods[k] = "LSTM" THEN d ELSE FixedDraw)]
              raised  == FirstTrue([k \in 1..Len(Methods) |-> ~out[k].ok])
              called  == IF raised = 0 THEN Len(Methods) ELSE raised
              badplot == IF raised # 0 THEN 0
                         ELSE FirstTrue([k \in 1..Len(Methods) |-> out[k].len # Horizon])
          IN  /\ calls' = [m \in MethodSet |->
                             IF \E k \in 1..called : Methods[k] = m
                             THEN calls[m] + 1 ELSE calls[m]]
              /\ IF raised # 0
                 THEN /\ pc' = "aborted"
                      /\ uncaught' = [from |-> "adapter", method |-> Methods[raised]]
                      /\ forecasts' = forecasts
                 ELSE /\ forecasts' = [m \in MethodSet |->
                                          out[CHOOSE k \in 1..Len(Methods) : Methods[k] = m]]
                      /\ IF badplot # 0
                         THEN /\ pc' = "aborted"
                              /\ uncaught' = [from |-> "plot", method |-> Methods[badplot]]
                         ELSE /\ pc' = "report"
                              /\ uncaught' = uncaught
    /\ UNCHANGED <<series_len, lags, invalid_config, empty_fit_ok, futures, completed, i,
                   results, errors, progress_bar, writes, metrics_df, status_text>>

\* metrics table, progress(100), "Forecasting Completed!"
Report ==
    /\ pc = "report"
    /\ metrics_df' = [shown |-> TRUE, rows |-> results]
    /\ progress_bar' = Append(progress_bar, Percent(IntValue(100)))
    /\ status_text' = "Forecasting Completed!"
    /\ pc' = "done"
    /\ UNCHANGED <<series_len, lags, invalid_config, empty_fit_ok, futures, completed, i,
                   results, errors, forecasts, calls, writes, uncaught>>

Next ==
    \/ RunForecast
    \/ \E m \in MethodSet : AdapterTask(m)
    \/ Collect
    \/ Visualization
    \/ Report

Spec == Init /\ [][Next]_vars

----------------------------------------------------------------------------
(* Properties *)

Finished(m) == futures[m].state = "finished"

Succeeded(m) == Finished(m) /\ futures[m].outcome.ok

Range(s) == {s[k] : k \in 1..Len(s)}

\* the evaluation the collection loop obtains for the future of m
Scored(m) ==
    IF futures[m].outcome.ok
    THEN calculate_metrics(PyTailLen(series_len, Horizon), futures[m].outcome)
    ELSE [ok |-> FALSE, error |-> futures[m].outcome.error]

\* C1: an adapter failure never aborts the run: whatever subset of the four
\* adapters fails, no adapter exception escapes the Run Forecast block, so the
\* run goes on to the metrics table and the completed status.
C1_AdapterFailureNeverAborts ==
    ~(pc = "aborted" /\ uncaught.from = "adapter")

\* C2: when the result set is handed to presentation it has an entry for
\* every one of the four methods; no method is absent from it.
C2_EveryMethodHasEntry ==
    metrics_df.shown => DOMAIN metrics_df.rows = MethodSet

\* C3: each adapter is invoked once per run and the forecast that is
\* presented is the forecast that was scored.
C3_ForecastProducedOnce ==
    \A m \in MethodSet :
        /\ calls[m] <= 1
        /\ m \in DOMAIN forecasts => forecasts[m] = futures[m].outcome

\* C4: the merged result is the same for every completion order of the four
\* tasks: after the k-th iteration of the collection loop each of the first k
\* methods has its own future's metric set if that future succeeded and was
\* scored, and a failure message otherwise, whatever order the tasks finished in.
C4_MergedResultIndependentOfOrder ==
    \A k \in 1..(i - 1) :
        LET m == Methods[k] IN
            /\ Finished(m)
            /\ IF Scored(m).ok
               THEN /\ m \in DOMAIN results
                    /\ results[m] = Scored(m).metrics
                    /\ \A e \in Range(errors) : e.method # m
               ELSE /\ m \notin DOMAIN results
                    /\ [method |-> m, error |-> Scored(m).error] \in Range(errors)

C4_Witness ==
    /\ i = Len(Methods) + 1
    /\ completed = <<"LSTM", "XGBoost", "ARIMA", "ETS">>
    /\ "ETS" \in DOMAIN results
    /\ Len(errors) = 1

\* C5: the reported progress never decreases, a value k/total is shown only
\* when at least k tasks have finished, the k-th collected future advances it
\* to k/total whether it succeeded or failed, and it reaches total/total when
\* all four are collected.
C5_ProgressMonotone ==
    /\ \A a, b \in 1..Len(progress_bar) : a <= b => progress_bar[a] <= progress_bar[b]
    /\ \A a \in 1..Len(progress_bar) :
          progress_bar[a] * Len(Methods) <= 100 * Cardinality({m \in MethodSet : Finished(m)})
    /\ \A k \in 1..(i - 1) : progress_bar[k + 1] * Len(Methods) = 100 * k
    /\ i = Len(Methods) + 1 => progress_bar[Len(progress_bar)] = 100

C5_Witness ==
    /\ pc = "visualize"
    /\ Len(errors) = 2
    /\ Len(progress_bar) = Len(Methods) + 1
    /\ progress_bar[Len(progress_bar)] = 100

\* C6: for both lag-based adapters, whenever len(series) <= lags + 12 the
\* invocation fails and returns no forecast, full or truncated.
C6_ShortSeriesFails ==
    \A m \in LagMethods :
        (Finished(m) /\ series_len <= lags + Horizon) => ~futures[m].outcome.ok

\* C7: every forecast returned by a successful adapter has exactly 12 values,
\* so the evaluator is called with a holdout tail and a forecast of equal length.
C7_ForecastHasHorizonLength ==
    \A m \in MethodSet :
        Succeeded(m) =>
            /\ futures[m].outcome.len = Horizon
            /\ futures[m].outcome.len = PyTailLen(series_len, Horizon)

\* C8: an evaluator failure on inputs of different length or without samples
\* is never downgraded to an ordinary per-method failure message.
C8_DimensionMismatchFailsLoudly ==
    \A e \in Range(errors) : e.error \notin {"inconsistent lengths", "no samples"}

\* C9: no observation of the holdout tail is read while fitting or while
\* building the inputs of the scored forecast, and the scored forecast refers
\* to the positions of the holdout tail.
C9_HoldoutOnlyForScoring ==
    \A m \in MethodSet :
        Succeeded(m) =>
            /\ futures[m].outcome.fit_reads \cap HoldoutTail(series_len) = {}
            /\ futures[m].outcome.predict_reads \cap HoldoutTail(series_len) = {}
            /\ futures[m].outcome.at = HoldoutTail(series_len)

\* C10: every assignment into the results dict is made by the script thread,
\* never by a step of an adapter task, and it writes one key that has not
\* been written before in this run, leaving the other slots as they were.
C10_OneWriterPerKey ==
    [][(results' # results \/ writes' # writes) =>
          /\ futures' = futures
          /\ \E m \in MethodSet \ DOMAIN results :
                /\ DOMAIN results' = DOMAIN results \cup {m}
                /\ \A k \in DOMAIN results : results'[k] = results[k]
                /\ writes' = Append(writes, [writer |-> "script", key |-> m])
                /\ \A a \in 1..Len(writes) : writes[a].key # m]_vars

C10_Witness ==
    /\ Len(writes) = Len(Methods)
    /\ DOMAIN results = MethodSet
    /\ completed[1] = "ARIMA"

====
